---- MODULE Spec2Model ----
(***************************************************************************)
(* Model of fetcher/file_io.py (mitoFetch): the version index (IDS_FILE),  *)
(* the removed log (REMOVED_IDS_FILE), the metadata table (METADATA_FILE), *)
(* the processed-ids ledger directory (PROCESSED_IDS_DIR) and the FASTA    *)
(* directory (SEQS_DIR), with the functions that read and rewrite them.    *)
(*                                                                         *)
(* An accession is a string, modelled as a sequence of one-character       *)
(* strings, so that str.split('.') and int() are computed, not assumed.    *)
(* A file is a record [exists, rows]; rows are whole lines / CSV rows.     *)
(* I/O faults (a read, listing, write or removal that raises OSError, or   *)
(* a crash during a write) are inputs of the actions: "none" or the step   *)
(* at which the fault happens.                                             *)
(***************************************************************************)
EXTENDS Integers, Sequences, FiniteSets, TLC

VARIABLES idsFile, removedFile, metaFile, ledgerDir, seqsDir, run, last

vars == <<idsFile, removedFile, metaFile, ledgerDir, seqsDir, run, last>>

(***************************************************************************)
(* Bounds of the model.                                                    *)
(***************************************************************************)
\* rows of one resolution input table (stored rows plus newly supplied rows)
MaxTable == 3
\* rows the metadata table may hold (the table is append-only between passes)
MaxMeta == 2
\* accepted accessions, and removed accessions, of one fetched batch
MaxBatch == 1
\* rows a store file holds when a call finds it
MaxStored == 2
\* ids handed to one save_processed_ids
MaxProcessed == 2
\* processes started on the same stores (each has its own TIMESTAMP)
MaxRuns == 2
\* candidate ids handed to filter_unprocessed_ids
MaxCandidates == 3
\* files in the directory handed to cleanup_old_files
MaxFiles == 4
\* greatest keep_last handed to cleanup_old_files
MaxKeep == 3

(***************************************************************************)
(* Strings.                                                                *)
(***************************************************************************)
Sep == "."

\* code points of the characters used, for Python's string order
Code(c) ==
    CASE c = "." -> 46 [] c = "0" -> 48 [] c = "1" -> 49 [] c = "2" -> 50
      [] c = "9" -> 57 [] c = "A" -> 65 [] c = "B" -> 66 [] c = "x" -> 120

IsDigit(c) == c \in {"0", "1", "2", "3", "4", "5", "6", "7", "8", "9"}

DigitVal(c) == Code(c) - Code("0")

\* Python's < on str: lexicographic by code point, a proper prefix is smaller
RECURSIVE StrLess(_, _)
StrLess(a, b) ==
    IF Len(b) = 0 THEN FALSE
    ELSE IF Len(a) = 0 THEN TRUE
    ELSE IF Head(a) = Head(b) THEN StrLess(Tail(a), Tail(b))
    ELSE Code(Head(a)) < Code(Head(b))

\* str.split('.'): the parts between separators (always at least one part)
RECURSIVE StrSplit(_)
StrSplit(s) ==
    IF Len(s) = 0 THEN << <<>> >>
    ELSE LET rest == StrSplit(Tail(s))
         IN IF Head(s) = Sep THEN << <<>> >> \o rest
            ELSE << <<Head(s)>> \o Head(rest) >> \o Tail(rest)

\* int(s) accepts s when it is a non-empty run of decimal digits (the
\* alphabet has no sign, blank or underscore)
IntOk(s) == Len(s) > 0 /\ \A i \in DOMAIN s : IsDigit(s[i])

RECURSIVE IntOf(_)
IntOf(s) ==
    IF Len(s) = 0 THEN 0
    ELSE 10 * IntOf(SubSeq(s, 1, Len(s) - 1)) + DigitVal(s[Len(s)])

\* split_accession: ok = FALSE stands for the ValueError it raises
split_accession(accession) ==
    LET parts == StrSplit(accession)
    IN IF Len(parts) = 2 /\ IntOk(parts[2])
       THEN [ok |-> TRUE, id |-> parts[1], version |-> IntOf(parts[2])]
       ELSE [ok |-> FALSE, id |-> <<>>, version |-> 0]

AccId(accession) == split_accession(accession).id
AccVersion(accession) == split_accession(accession).version

\* acc.split(".")[0], the FASTA root of an accession
Root(accession) == StrSplit(accession)[1]

(***************************************************************************)
(* Sequences.                                                              *)
(***************************************************************************)
Range(s) == {s[i] : i \in DOMAIN s}

\* the indices of S in ascending order
Ascending(S, n) == SelectSeq([i \in 1..n |-> i], LAMBDA i : i \in S)

\* list(dict.fromkeys(s)): first occurrence of each element, in order
RECURSIVE FromKeys(_)
FromKeys(s) ==
    IF Len(s) = 0 THEN <<>>
    ELSE LET front == FromKeys(SubSeq(s, 1, Len(s) - 1))
         IN IF s[Len(s)] \in Range(front) THEN front
            ELSE Append(front, s[Len(s)])

\* some enumeration of the finite set S as a sequence
RECURSIVE Ascending0(_)
Ascending0(S) ==
    IF S = {} THEN <<>>
    ELSE LET x == CHOOSE x \in S : TRUE IN <<x>> \o Ascending0(S \ {x})

\* all sequences over S of length lo..hi
SeqsOf(S, lo, hi) == UNION {[1..n -> S] : n \in lo..hi}

(***************************************************************************)
(* Files.                                                                  *)
(***************************************************************************)
NoFile == [exists |-> FALSE, rows |-> <<>>]
File(rows) == [exists |-> TRUE, rows |-> rows]

\* What an interrupted open(path, 'w') + write of `new` can leave: the file
\* untouched (the open failed) or truncated and holding a proper prefix.
PartialWrites(prior, new) ==
    {prior} \cup {File(SubSeq(new, 1, k)) : k \in 0..(Len(new) - 1)}

\* What an interrupted append (mode='a') of `new` can leave.
PartialAppends(prior, new) ==
    {prior} \cup {File(prior.rows \o SubSeq(new, 1, k)) : k \in 0..(Len(new) - 1)}

Accessions(file) == {file.rows[i].accession : i \in DOMAIN file.rows}

(***************************************************************************)
(* Resolution: duplicate_removal (version index, removed log).             *)
(* A table is a sequence of rows; a row is a record with an `accession`    *)
(* field. Row i of the table has pandas index label i.                     *)
(***************************************************************************)
\* mutant: keep="first", every row that has an earlier row with its accession
duplicated_first(entries) ==
    {i \in DOMAIN entries :
        \E j \in DOMAIN entries :
            j < i /\ entries[j].accession = entries[i].accession}

\* entries.duplicated(subset="accession", keep="last"): every row that has
\* a later row with the same accession string
duplicated_last(entries) ==
    {i \in DOMAIN entries :
        \E j \in DOMAIN entries :
            j > i /\ entries[j].accession = entries[i].accession}

\* mutant: the version column left as text, so idxmax compares strings
idxmax_text(entries, rows) ==
    {i \in rows :
        \A j \in rows :
            AccId(entries[j].accession) = AccId(entries[i].accession)
            => \/ StrLess(StrSplit(entries[j].accession)[2],
                          StrSplit(entries[i].accession)[2])
               \/ /\ StrSplit(entries[j].accession)[2] = StrSplit(entries[i].accession)[2]
                  /\ i <= j}

\* mutant: the older versions are not removed
idxmax_all(entries, rows) == rows

\* entries.groupby("id")["version"].idxmax() over the rows `rows`: for each
\* id the first row that holds the group's greatest version
idxmax(entries, rows) ==
    {i \in rows :
        \A j \in rows :
            AccId(entries[j].accession) = AccId(entries[i].accession)
            => \/ AccVersion(entries[j].accession) < AccVersion(entries[i].accession)
               \/ /\ AccVersion(entries[j].accession) = AccVersion(entries[i].accession)
                  /\ i <= j}

\* the rows `rows` in the order of their group key, as groupby sorts it
ById(entries, rows) ==
    SortSeq(Ascending(rows, Len(entries)),
            LAMBDA a, b : StrLess(AccId(entries[a].accession),
                                  AccId(entries[b].accession)))

\* duplicate_removal(entries), entries not empty.
\*   raised    : split_accession raised ValueError (nothing is returned)
\*   duplicate : rows handed to save_dropped_rows with reason "duplicate"
\*   update    : rows handed to save_dropped_rows with reason "update"
\*   kept      : the rows of the returned frame, in its order
duplicate_removal(entries) ==
    LET dup == duplicated_last(entries)
        surv == DOMAIN entries \ dup
        bad == \E i \in surv : ~split_accession(entries[i].accession).ok
        keep == idxmax(entries, surv)
        older == surv \ keep
    IN IF bad
       THEN [raised |-> TRUE, duplicate |-> dup, update |-> {}, kept |-> <<>>]
       ELSE [raised |-> FALSE, duplicate |-> dup, update |-> older,
             kept |-> IF older = {} THEN Ascending(surv, Len(entries))
                      ELSE ById(entries, keep)]

\* the rows of table t at the indices idx, in that order
RowsAt(t, idx) == [k \in 1..Len(idx) |-> t[idx[k]]]

(***************************************************************************)
(* Resolution: post_process_metadata (metadata table).                     *)
(* A metadata row is [accession, country]; country may be NaN.             *)
(***************************************************************************)
NaN == "NaN"

\* row.notna().sum() without the three helper columns, which are never null
notna(row) == 1 + (IF row.country = NaN THEN 0 ELSE 1)

\* the rows of meta_df with the id of row i (one group of groupby('id'))
Group(meta, i) ==
    {j \in DOMAIN meta : AccId(meta[j].accession) = AccId(meta[i].accession)}

\* group.iloc[0] after sort_values(['id','version','index'],
\* ascending=[True, False, True]): greatest version, then smallest index
best_row(meta, g) ==
    CHOOSE i \in g :
        \A j \in g :
            \/ AccVersion(meta[j].accession) < AccVersion(meta[i].accession)
            \/ /\ AccVersion(meta[j].accession) = AccVersion(meta[i].accession)
               /\ i <= j

SetMax(S) == CHOOSE m \in S : \A x \in S : x <= m

\* best_rows: among the rows with best_row's version, the one added last
best_rows(meta, g) ==
    LET b == best_row(meta, g)
        max_version_rows ==
            {j \in g : AccVersion(meta[j].accession) = AccVersion(meta[b].accession)}
    IN SetMax(max_version_rows)

\* pd.concat([meta_df, final_df]).drop_duplicates(keep=False): the rows of
\* meta_df whose values occur once in the concatenation
removed_rows(meta, final) ==
    {i \in DOMAIN meta :
        /\ \A j \in DOMAIN meta : j # i => meta[j] # meta[i]
        /\ \A k \in DOMAIN final : meta[final[k]] # meta[i]}

\* post_process_metadata on the rows read from METADATA_FILE.
\*   raised     : split_accession raised ValueError (nothing is written)
\*   kept       : final_df, as indices of meta_df
\*   removed    : removed_df, as indices of meta_df
\*   not_recent : ids warned "is not the most recently added row"
\*   richer     : rows warned "has more filled fields than the highest version"
post_process(meta) ==
    LET bad == \E i \in DOMAIN meta : ~split_accession(meta[i].accession).ok
        keep == {best_rows(meta, Group(meta, i)) : i \in DOMAIN meta}
        final == ById(meta, keep)
    IN IF bad
       THEN [raised |-> TRUE, kept |-> <<>>, removed |-> {},
             not_recent |-> {}, richer |-> {}]
       ELSE [raised |-> FALSE, kept |-> final,
             removed |-> removed_rows(meta, final),
             not_recent |->
                 {AccId(meta[i].accession) : i \in
                     {j \in DOMAIN meta :
                         best_row(meta, Group(meta, j)) # SetMax(Group(meta, j))}},
             richer |->
                 {i \in DOMAIN meta :
                     /\ i # best_row(meta, Group(meta, i))
                     /\ notna(meta[i]) > notna(meta[best_row(meta, Group(meta, i))])}]

(***************************************************************************)
(* The store functions. Each is the set of outcomes of one call: `fault`   *)
(* names the step at which an I/O error is injected ("none": no error);    *)
(* an outcome records in `fault` the error that did happen, so a fault     *)
(* whose step the call never reaches yields the empty set.                 *)
(*   raised : an exception left the function (err names it)                *)
(*   file   : the store file after the call                                *)
(*   input  : the table handed to resolution, res : what resolution did    *)
(*   wnew   : the rows the interrupted write was to put in the file        *)
(***************************************************************************)
NoRes == [raised |-> FALSE, duplicate |-> {}, update |-> {}, kept |-> <<>>]

Returned(file, input, res) ==
    [raised |-> FALSE, err |-> "none", fault |-> "none", file |-> file,
     input |-> input, res |-> res, wnew |-> <<>>]

Raised(err, fault, file, input, res, wnew) ==
    [raised |-> TRUE, err |-> err, fault |-> fault, file |-> file,
     input |-> input, res |-> res, wnew |-> wnew]

\* resolve `table` and rewrite `file` with the kept rows; the write is a
\* plain open-for-writing (DataFrame.to_csv(path)), interrupted by `wfault`
resolve_and_write(file, table, fault, wfault) ==
    LET res == duplicate_removal(table)
        new == RowsAt(table, res.kept)
    IN IF res.raised
       THEN {Raised("ValueError", "none", file, table, res, <<>>)}
       ELSE IF fault = wfault
       THEN {Raised("OSError", wfault, f, table, res, new) :
                f \in PartialWrites(file, new)}
       ELSE {Returned(File(new), table, res)}

\* update_local_versions(entries): entries is a list of accession strings
update_local_versions(file, entries, fault) ==
    LET ids == file.rows \o [k \in DOMAIN entries |-> [accession |-> entries[k]]]
    IN IF file.exists /\ fault = "ids_read"
       THEN {Raised("OSError", "ids_read", file, <<>>, NoRes, <<>>)}
       ELSE IF Len(ids) = 0
       THEN {Returned(file, <<>>, NoRes)}
       ELSE resolve_and_write(file, ids, fault, "ids_write")

\* save_removed_versions(removed_entries): rows [accession, filter]
save_removed_versions(file, removed_entries, fault) ==
    IF Len(removed_entries) = 0
    THEN {Returned(file, <<>>, NoRes)}
    ELSE IF file.exists /\ fault = "removed_read"
    THEN {Raised("OSError", "removed_read", file, <<>>, NoRes, <<>>)}
    ELSE resolve_and_write(file, file.rows \o removed_entries, fault,
                           "removed_write")

\* save_metadata(new_metas): appends, creating the file when it is absent
save_metadata(file, new_metas, fault) ==
    IF fault = "meta_write"
    THEN {Raised("OSError", "meta_write", f, <<>>, NoRes, file.rows \o new_metas) :
             f \in PartialAppends(file, new_metas)}
    ELSE {Returned(File(file.rows \o new_metas), <<>>, NoRes)}

\* what post_process reports, in the shape of a duplicate_removal result
MetaRes(pp) ==
    [raised |-> pp.raised, duplicate |-> {}, update |-> pp.removed,
     kept |-> pp.kept, not_recent |-> pp.not_recent]

\* post_process_metadata(): rewrites METADATA_FILE with final_df, then
\* writes removed_df to the debug directory
post_process_metadata(file, fault) ==
    LET pp == post_process(file.rows)
        new == RowsAt(file.rows, pp.kept)
    IN IF ~file.exists
       THEN {Returned(file, <<>>, NoRes)}
       ELSE IF fault = "meta_read"
       THEN {Raised("OSError", "meta_read", file, <<>>, NoRes, <<>>)}
       ELSE IF pp.raised
       THEN {Raised("ValueError", "none", file, file.rows, MetaRes(pp), <<>>)}
       ELSE IF fault = "meta_write"
       THEN {Raised("OSError", "meta_write", f, file.rows, MetaRes(pp), new) :
                f \in PartialWrites(file, new)}
       ELSE {Returned(File(new), file.rows, MetaRes(pp))}

(***************************************************************************)
(* The run ledger: PROCESSED_IDS_DIR holds one snapshot file per process   *)
(* (CURRENT_PROCESSED_IDS_FILE carries the process's TIMESTAMP). ledgerDir *)
(* lists the snapshot files by ascending ctime: [name, ids].               *)
(***************************************************************************)
\* CURRENT_PROCESSED_IDS_FILE of the process `r`, as a file
CurrentSnapshot(dir, r) ==
    IF \E k \in DOMAIN dir : dir[k].name = r
    THEN File((CHOOSE f \in Range(dir) : f.name = r).ids)
    ELSE NoFile

\* the directory after CURRENT_PROCESSED_IDS_FILE was opened for writing and
\* given the lines ids: its ctime is now the latest
WriteSnapshot(dir, r, ids) ==
    Append(SelectSeq(dir, LAMBDA f : f.name # r), [name |-> r, ids |-> ids])

\* find_latest_processed_ids_file: max(files, key=os.path.getctime), None
\* (found = FALSE) when there is no file or when anything raised
find_latest_processed_ids_file(dir, fault) ==
    IF fault = "ledger_list" \/ Len(dir) = 0
    THEN [found |-> FALSE, ids |-> <<>>]
    ELSE [found |-> TRUE, ids |-> dir[Len(dir)].ids]

\* what load_processed_ids returns when it returns
load_processed_ids(dir, fault) == find_latest_processed_ids_file(dir, fault).ids

\* mutant: the old ids first
combine_ids_old_first(processed_ids, old_processed_ids) ==
    FromKeys(old_processed_ids \o processed_ids)

\* list(dict.fromkeys(processed_ids + old_processed_ids))
combine_ids(processed_ids, old_processed_ids) ==
    FromKeys(processed_ids \o old_processed_ids)

\* save_processed_ids(processed_ids); `file` of an outcome is the directory
save_processed_ids(dir, r, processed_ids, fault) ==
    LET latest == find_latest_processed_ids_file(dir, fault)
        old_processed_ids == load_processed_ids(dir, fault)
        all_processed_ids == combine_ids(processed_ids, old_processed_ids)
        listed == IF fault = "ledger_list" THEN "ledger_list" ELSE "none"
    IN IF latest.found /\ fault = "ledger_read"
       THEN {Raised("OSError", "ledger_read", dir, <<>>, NoRes, <<>>)}
       ELSE IF fault = "ledger_write"
       THEN {Raised("OSError", "ledger_write", d, old_processed_ids, NoRes,
                    all_processed_ids) :
                d \in {dir} \cup {WriteSnapshot(dir, r, SubSeq(all_processed_ids, 1, k)) :
                                     k \in 0..(Len(all_processed_ids) - 1)}}
       ELSE {[Returned(WriteSnapshot(dir, r, all_processed_ids),
                       old_processed_ids, NoRes) EXCEPT !.fault = listed]}

\* mutant: the candidates as a set, a repeated candidate returned once
filter_unprocessed_ids_once(id_list, processed_ids) ==
    FromKeys(SelectSeq(id_list, LAMBDA seq_id : seq_id \notin Range(processed_ids)))

\* [seq_id for seq_id in id_list if seq_id not in processed_ids]
RECURSIVE filter_unprocessed_ids(_, _)
filter_unprocessed_ids(id_list, processed_ids) ==
    IF Len(id_list) = 0 THEN <<>>
    ELSE IF \E k \in DOMAIN processed_ids : processed_ids[k] = Head(id_list)
    THEN filter_unprocessed_ids(Tail(id_list), processed_ids)
    ELSE <<Head(id_list)>> \o filter_unprocessed_ids(Tail(id_list), processed_ids)

(***************************************************************************)
(* cleanup_old_files(directory, keep_last): the directory is a sequence of *)
(* files by ascending ctime, as PROCESSED_IDS_DIR is; every file has one   *)
(* of the extensions .txt, .csv, .log.                                     *)
(***************************************************************************)
\* files[keep_last:] after files.sort(key=os.path.getctime, reverse=True):
\* the files beyond the keep_last most recent, the most recent of them first
files_to_remove(dir, keep_last) ==
    [k \in 1..(Len(dir) - keep_last) |-> dir[Len(dir) - keep_last + 1 - k]]

\* for file in files_to_remove: os.remove(file) -- the names of the files
\* removed; the first os.remove that raises ends the loop
RECURSIVE remove_all_until_failure(_, _)
remove_all_until_failure(files, del_fail) ==
    IF Len(files) = 0 THEN {}
    ELSE IF Head(files).name \in del_fail THEN {}
    ELSE {Head(files).name} \cup remove_all_until_failure(Tail(files), del_fail)

\* the directory after cleanup_old_files; fault "dir_list": os.listdir raised
cleanup_old_files(dir, keep_last, del_fail, fault) ==
    IF fault = "dir_list" THEN dir
    ELSE IF Len(dir) <= keep_last THEN dir
    ELSE LET removed == remove_all_until_failure(files_to_remove(dir, keep_last),
                                                 del_fail)
         IN SelectSeq(dir, LAMBDA f : f.name \notin removed)

(***************************************************************************)
(* clean_profiles_from_data: every store step runs inside its own          *)
(* try/except that logs and goes on.                                       *)
(***************************************************************************)
\* mutant: rows matched by FASTA root instead of by accession
kept_lines_by_root(rows, keep_set) ==
    SelectSeq(rows, LAMBDA r : Root(r.accession) \in {Root(a) : a \in keep_set})

\* kept_lines / df[df["accession"].isin(keep_set)]
kept_lines(rows, keep_set) ==
    SelectSeq(rows, LAMBDA r : r.accession \in keep_set)

\* mutant: the file is rewritten whether or not rows were removed
prune_file_always(file, keep_set, fault, rfault, wfault) ==
    LET kept == kept_lines(file.rows, keep_set)
    IN IF ~file.exists
       THEN {[file |-> file, fault |-> "none", wnew |-> <<>>]}
       ELSE IF fault = rfault
       THEN {[file |-> file, fault |-> rfault, wnew |-> <<>>]}
       ELSE IF fault = wfault
       THEN {[file |-> f, fault |-> wfault, wnew |-> kept] :
                f \in PartialWrites(file, kept)}
       ELSE {[file |-> File(kept), fault |-> "none", wnew |-> <<>>]}

\* one of the three file steps: read, filter by keep_set, rewrite the file
\* only when rows were removed. rfault / wfault are the step's read and
\* write faults.
prune_file(file, keep_set, fault, rfault, wfault) ==
    LET kept == kept_lines(file.rows, keep_set)
    IN IF ~file.exists
       THEN {[file |-> file, fault |-> "none", wnew |-> <<>>]}
       ELSE IF fault = rfault
       THEN {[file |-> file, fault |-> rfault, wnew |-> <<>>]}
       ELSE IF Len(kept) < Len(file.rows)
       THEN IF fault = wfault
            THEN {[file |-> f, fault |-> wfault, wnew |-> kept] :
                     f \in PartialWrites(file, kept)}
            ELSE {[file |-> File(kept), fault |-> "none", wnew |-> <<>>]}
       ELSE {[file |-> file, fault |-> "none", wnew |-> <<>>]}

\* the FASTA step: seqs is the set of root names of the *.fasta files;
\* del_fail are the files whose os.remove raises
prune_seqs(seqs, keep_set, fault, del_fail) ==
    LET valid_roots == {Root(acc) : acc \in keep_set}
    IN IF fault = "seqs_list"
       THEN [seqs |-> seqs, fault |-> "seqs_list"]
       ELSE [seqs |-> {f \in seqs : f \in valid_roots \/ f \in del_fail},
             fault |-> "none"]

\* the fault that happened among the steps' faults (at most one is injected)
Happened(faults) ==
    IF faults \subseteq {"none"} THEN "none"
    ELSE CHOOSE f \in faults : f # "none"

\* clean_profiles_from_data(ids_list) on the stores st; always returns 0
clean_profiles_from_data(st, ids_list, fault, del_fail) ==
    LET keep_set == Range(ids_list)
        q == prune_seqs(st.seqs, keep_set, fault, del_fail)
    IN {[ids |-> i.file, removed |-> r.file, meta |-> m.file, seqs |-> q.seqs,
         returned |-> 0,
         fault |-> Happened({i.fault, r.fault, m.fault, q.fault}),
         wnew |-> i.wnew \o r.wnew \o m.wnew] :
           i \in prune_file(st.ids, keep_set, fault, "ids_read", "ids_write"),
           r \in prune_file(st.removed, keep_set, fault, "removed_read", "removed_write"),
           m \in prune_file(st.meta, keep_set, fault, "meta_read", "meta_write")}

(***************************************************************************)
(* save_batch_info: the four saves in the order of the code; an exception  *)
(* of one save leaves the function, so the later saves do not run.         *)
(***************************************************************************)
\* the stores after a save_batch_info that ended in step `step` with outcome o
BatchEnd(ids, meta, removed, ledger, step, o) ==
    [ids |-> ids, meta |-> meta, removed |-> removed, ledger |-> ledger,
     step |-> step, raised |-> o.raised, err |-> o.err, fault |-> o.fault,
     wnew |-> o.wnew]

\* mutant: save_processed_ids first, then the store saves
save_batch_info_ledger_first(st, r, filtered_entries, removed, metas, fault) ==
    LET all_processed_ids ==
            [k \in DOMAIN removed |-> removed[k].accession] \o filtered_entries
        Removed(ids, meta, ledger) ==
            {BatchEnd(ids, meta, o.file, ledger, "removed", o) :
                o \in save_removed_versions(st.removed, removed, fault)}
        Meta(ids, ledger) ==
            UNION {IF o.raised
                   THEN {BatchEnd(ids, o.file, st.removed, ledger, "meta", o)}
                   ELSE Removed(ids, o.file, ledger) :
                      o \in save_metadata(st.meta, metas, fault)}
        Stores1(ledger) ==
            IF Len(filtered_entries) > 0
            THEN UNION {IF o.raised
                        THEN {BatchEnd(o.file, st.meta, st.removed, ledger, "ids", o)}
                        ELSE Meta(o.file, ledger) :
                           o \in update_local_versions(st.ids, filtered_entries, fault)}
            ELSE Removed(st.ids, st.meta, ledger)
    IN UNION {IF o.raised \/ o.fault # "none"
              THEN {BatchEnd(st.ids, st.meta, st.removed, o.file, "ledger", o)}
              ELSE Stores1(o.file) :
                 o \in save_processed_ids(st.ledger, r, all_processed_ids, fault)}

save_batch_info(st, r, filtered_entries, removed, metas, fault) ==
    LET all_processed_ids ==
            [k \in DOMAIN removed |-> removed[k].accession] \o filtered_entries
        Ledger(ids, meta, rem) ==
            {BatchEnd(ids, meta, rem, o.file, "ledger", o) :
                o \in save_processed_ids(st.ledger, r, all_processed_ids, fault)}
        Removed(ids, meta) ==
            UNION {IF o.raised
                   THEN {BatchEnd(ids, meta, o.file, st.ledger, "removed", o)}
                   ELSE Ledger(ids, meta, o.file) :
                      o \in save_removed_versions(st.removed, removed, fault)}
        Meta(ids) ==
            UNION {IF o.raised
                   THEN {BatchEnd(ids, o.file, st.removed, st.ledger, "meta", o)}
                   ELSE Removed(ids, o.file) :
                      o \in save_metadata(st.meta, metas, fault)}
    IN IF Len(filtered_entries) > 0
       THEN UNION {IF o.raised
                   THEN {BatchEnd(o.file, st.meta, st.removed, st.ledger, "ids", o)}
                   ELSE Meta(o.file) :
                      o \in update_local_versions(st.ids, filtered_entries, fault)}
       ELSE Removed(st.ids, st.meta)

(***************************************************************************)
(* State. `last` is the observation of the last call: what it was given,   *)
(* what it did and how it ended.                                           *)
(*   op, fault, raised, err : the call, the injected fault, its end        *)
(*   returned  : the value returned ("0", "None") or "raise"               *)
(*   input,res : the table resolved and the result of resolution           *)
(*   wprior    : the file as it was before the call's interrupted write    *)
(*   wnew      : the rows that write was to leave in the file              *)
(*   keep_set  : clean_profiles_from_data's set(ids_list)                  *)
(*   del_fail  : the FASTA files whose os.remove raised                    *)
(*   processed : the ids given to save_processed_ids                       *)
(*   loaded    : what load_processed_ids returned to it                    *)
(*   latest    : the most recent snapshot before the call                  *)
(*   step      : the save in which save_batch_info ended                   *)
(*   id_list, unprocessed : filter_unprocessed_ids' candidates and result   *)
(*   keep_last : cleanup_old_files' keep_last                              *)
(*   again     : the clean directly follows a clean with the same keep set *)
(*               that met no error                                         *)
(***************************************************************************)
LastBase ==
    [op |-> "start", fault |-> "none", raised |-> FALSE, err |-> "none",
     returned |-> "None", input |-> <<>>, res |-> NoRes,
     wprior |-> NoFile, wnew |-> <<>>, keep_set |-> {}, del_fail |-> {},
     processed |-> <<>>, loaded |-> <<>>, latest |-> <<>>, step |-> "none",
     again |-> FALSE, id_list |-> <<>>, unprocessed |-> <<>>,
     keep_last |-> 0]

Ends(o) == IF o.raised THEN "raise" ELSE "None"

\* the most recent snapshot of the ledger directory (empty when none)
LatestLedger(dir) == IF Len(dir) = 0 THEN <<>> ELSE dir[Len(dir)].ids

\* the store whose write the fault interrupts
WriteStore(fault) ==
    CASE fault = "ids_write" -> "ids"
      [] fault = "removed_write" -> "removed"
      [] fault = "meta_write" -> "meta"
      [] fault = "ledger_write" -> "ledger"
      [] OTHER -> "none"

\* the file of a store, as it is on disk now
StoreFile(store) ==
    CASE store = "ids" -> idsFile
      [] store = "removed" -> removedFile
      [] store = "meta" -> metaFile
      [] store = "ledger" -> CurrentSnapshot(ledgerDir, run)

Stores ==
    [ids |-> idsFile, removed |-> removedFile, meta |-> metaFile,
     ledger |-> ledgerDir, seqs |-> seqsDir]

(***************************************************************************)
(* Actions: one per function of file_io.py that changes a store.           *)
(***************************************************************************)
UpdateLocalVersions(entries, fault) ==
    \E o \in update_local_versions(idsFile, entries, fault) :
        /\ o.fault = fault
        /\ idsFile' = o.file
        /\ last' = [LastBase EXCEPT !.op = "update_local_versions",
                        !.fault = fault, !.raised = o.raised, !.err = o.err,
                        !.returned = Ends(o), !.input = o.input, !.res = o.res,
                        !.wprior = idsFile, !.wnew = o.wnew]
        /\ UNCHANGED <<removedFile, metaFile, ledgerDir, seqsDir, run>>

SaveRemovedVersions(removed_entries, fault) ==
    \E o \in save_removed_versions(removedFile, removed_entries, fault) :
        /\ o.fault = fault
        /\ removedFile' = o.file
        /\ last' = [LastBase EXCEPT !.op = "save_removed_versions",
                        !.fault = fault, !.raised = o.raised, !.err = o.err,
                        !.returned = Ends(o), !.input = o.input, !.res = o.res,
                        !.wprior = removedFile, !.wnew = o.wnew]
        /\ UNCHANGED <<idsFile, metaFile, ledgerDir, seqsDir, run>>

SaveMetadata(new_metas, fault) ==
    \E o \in save_metadata(metaFile, new_metas, fault) :
        /\ o.fault = fault
        /\ metaFile' = o.file
        /\ last' = [LastBase EXCEPT !.op = "save_metadata",
                        !.fault = fault, !.raised = o.raised, !.err = o.err,
                        !.returned = Ends(o),
                        !.wprior = metaFile, !.wnew = o.wnew]
        /\ UNCHANGED <<idsFile, removedFile, ledgerDir, seqsDir, run>>

PostProcessMetadata(fault) ==
    \E o \in post_process_metadata(metaFile, fault) :
        /\ o.fault = fault
        /\ metaFile' = o.file
        /\ last' = [LastBase EXCEPT !.op = "post_process_metadata",
                        !.fault = fault, !.raised = o.raised, !.err = o.err,
                        !.returned = Ends(o), !.input = o.input, !.res = o.res,
                        !.wprior = metaFile, !.wnew = o.wnew]
        /\ UNCHANGED <<idsFile, removedFile, ledgerDir, seqsDir, run>>

SaveProcessedIds(processed_ids, fault) ==
    \E o \in save_processed_ids(ledgerDir, run, processed_ids, fault) :
        /\ o.fault = fault
        /\ ledgerDir' = o.file
        /\ last' = [LastBase EXCEPT !.op = "save_processed_ids",
                        !.fault = fault, !.raised = o.raised, !.err = o.err,
                        !.returned = Ends(o),
                        !.processed = processed_ids, !.loaded = o.input,
                        !.latest = LatestLedger(ledgerDir),
                        !.wprior = CurrentSnapshot(ledgerDir, run),
                        !.wnew = o.wnew]
        /\ UNCHANGED <<idsFile, removedFile, metaFile, seqsDir, run>>

SaveBatchInfo(filtered_entries, removed, metas, fault) ==
    \E o \in save_batch_info(Stores, run, filtered_entries, removed, metas, fault) :
        /\ o.fault = fault
        /\ idsFile' = o.ids
        /\ metaFile' = o.meta
        /\ removedFile' = o.removed
        /\ ledgerDir' = o.ledger
        /\ last' = [LastBase EXCEPT !.op = "save_batch_info",
                        !.fault = fault, !.raised = o.raised, !.err = o.err,
                        !.returned = Ends(o), !.step = o.step,
                        !.wprior = IF WriteStore(fault) = "none" THEN NoFile
                                   ELSE StoreFile(WriteStore(fault)),
                        !.wnew = o.wnew]
        /\ UNCHANGED <<seqsDir, run>>

CleanProfiles(ids_list, fault, del_fail) ==
    \E o \in clean_profiles_from_data(Stores, ids_list, fault, del_fail) :
        /\ o.fault = fault
        /\ del_fail \subseteq {f \in seqsDir : f \notin {Root(a) : a \in Range(ids_list)}}
        /\ fault = "seqs_list" => del_fail = {}
        /\ idsFile' = o.ids
        /\ removedFile' = o.removed
        /\ metaFile' = o.meta
        /\ seqsDir' = o.seqs
        /\ last' = [LastBase EXCEPT !.op = "clean_profiles_from_data",
                        !.fault = fault, !.del_fail = del_fail,
                        !.returned = "0", !.keep_set = Range(ids_list),
                        !.again = /\ last.op = "clean_profiles_from_data"
                                  /\ last.fault = "none"
                                  /\ last.del_fail = {}
                                  /\ last.keep_set = Range(ids_list),
                        !.wprior = IF WriteStore(fault) = "none" THEN NoFile
                                   ELSE StoreFile(WriteStore(fault)),
                        !.wnew = o.wnew]
        /\ UNCHANGED <<ledgerDir, run>>

FilterUnprocessedIds(id_list, processed_ids) ==
    /\ last' = [LastBase EXCEPT !.op = "filter_unprocessed_ids",
                    !.id_list = id_list, !.processed = processed_ids,
                    !.unprocessed = filter_unprocessed_ids(id_list, processed_ids)]
    /\ UNCHANGED <<idsFile, removedFile, metaFile, ledgerDir, seqsDir, run>>

\* cleanup_old_files(PROCESSED_IDS_DIR, keep_last); returns None whatever
\* happened
CleanupOldFiles(keep_last, del_fail, fault) ==
    /\ ledgerDir' = cleanup_old_files(ledgerDir, keep_last, del_fail, fault)
    /\ last' = [LastBase EXCEPT !.op = "cleanup_old_files", !.fault = fault,
                    !.keep_last = keep_last, !.del_fail = del_fail]
    /\ UNCHANGED <<idsFile, removedFile, metaFile, seqsDir, run>>

\* write_seq_as_fasta(record): SEQS_DIR/<record.id.split('.')[0]>.fasta
WriteSeqAsFasta(accession) ==
    /\ seqsDir' = seqsDir \cup {Root(accession)}
    /\ last' = [LastBase EXCEPT !.op = "write_seq_as_fasta", !.returned = "True"]
    /\ UNCHANGED <<idsFile, removedFile, metaFile, ledgerDir, run>>

\* a new process on the same stores: a new TIMESTAMP, so a new
\* CURRENT_PROCESSED_IDS_FILE
NewRun ==
    /\ run < MaxRuns
    /\ run' = run + 1
    /\ last' = [LastBase EXCEPT !.op = "new_run"]
    /\ UNCHANGED <<idsFile, removedFile, metaFile, ledgerDir, seqsDir>>

(***************************************************************************)
(* Inputs.                                                                 *)
(***************************************************************************)
A1 == <<"A", ".", "1">>
A2 == <<"A", ".", "2">>
A9 == <<"A", ".", "9">>
A10 == <<"A", ".", "1", "0">>
B1 == <<"B", ".", "1">>
\* malformed: no separator, two separators, a version that is no number
ANoSep == <<"A">>
ATwoSep == <<"B", ".", "1", ".", "0">>
ANoInt == <<"A", ".", "x">>

Filters == {"length", "quality"}
Countries == {NaN, "AT"}

\* the accessions of the system specification
SysAccessions == {A1, A2, B1}
\* the accessions of the resolution specification
ResAccessions == {A9, A10, B1, ANoSep, ATwoSep, ANoInt}

\* one list for every subset of S (clean_profiles_from_data uses set(ids_list))
KeepLists(S) == {Ascending0(T) : T \in SUBSET S}

IdRows(S) == {[accession |-> a] : a \in S}
RemovedRows(S) == {[accession |-> a, filter |-> f] : a \in S, f \in Filters}
MetaRows(S) == {[accession |-> a, country |-> c] : a \in S, c \in Countries}

\* the metadata rows the fetch hands over with the accepted accessions
MetasOf(filtered_entries) ==
    [k \in DOMAIN filtered_entries |->
        [accession |-> filtered_entries[k], country |-> "AT"]]

BatchFaults ==
    {"none", "ids_read", "ids_write", "meta_write", "removed_read",
     "removed_write", "ledger_list", "ledger_read", "ledger_write"}
CleanFaults ==
    {"none", "ids_read", "ids_write", "removed_read", "removed_write",
     "meta_read", "meta_write", "seqs_list"}
LedgerFaults == {"none", "ledger_list", "ledger_read", "ledger_write"}

(***************************************************************************)
(* Store contents left by earlier calls. update_local_versions and         *)
(* save_removed_versions leave at most one row per identifier; the         *)
(* metadata table is append-only and holds any rows.                       *)
(***************************************************************************)
Resolved(t) ==
    \A i, j \in DOMAIN t :
        AccId(t[i].accession) = AccId(t[j].accession) => i = j

StoredFiles(rows, n) ==
    {NoFile} \cup {File(t) : t \in {u \in SeqsOf(rows, 1, n) : Resolved(u)}}

(***************************************************************************)
(* Spec: the stores of a fresh installation, save_batch_info and           *)
(* clean_profiles_from_data called in any order, no I/O fault.             *)
(***************************************************************************)
Init ==
    /\ idsFile = NoFile
    /\ removedFile = NoFile
    /\ metaFile = NoFile
    /\ ledgerDir = <<>>
    /\ seqsDir = {}
    /\ run = 1
    /\ last = LastBase

BatchStep ==
    \E filtered_entries \in SeqsOf(SysAccessions, 0, MaxBatch),
       removed \in SeqsOf(RemovedRows(SysAccessions), 0, MaxBatch) :
        /\ Len(metaFile.rows) + Len(filtered_entries) <= MaxMeta
        /\ SaveBatchInfo(filtered_entries, removed, MetasOf(filtered_entries), "none")

CleanStep ==
    \E ids_list \in KeepLists(SysAccessions) :
        CleanProfiles(ids_list, "none", {})

Next ==
    \/ BatchStep
    \/ CleanStep

Spec == Init /\ [][Next]_vars

(***************************************************************************)
(* SpecBatch: one save_batch_info on stores left by earlier calls, with    *)
(* I/O faults.                                                             *)
(***************************************************************************)
InitBatch ==
    /\ idsFile \in StoredFiles(IdRows(SysAccessions), MaxStored)
    /\ removedFile \in StoredFiles(RemovedRows({A1}), MaxStored)
    /\ metaFile \in {NoFile, File(MetasOf(<<A1>>))}
    /\ ledgerDir \in {<<>>, <<[name |-> 1, ids |-> <<A1>>]>>}
    /\ seqsDir = {}
    /\ run = 1
    /\ last = LastBase

BatchOnce ==
    \E filtered_entries \in SeqsOf(SysAccessions, 0, MaxBatch),
       removed \in SeqsOf(RemovedRows(SysAccessions), 0, MaxBatch),
       fault \in BatchFaults :
        /\ last.op = "start"
        /\ SaveBatchInfo(filtered_entries, removed, MetasOf(filtered_entries), fault)

NextBatch ==
    \/ BatchOnce

SpecBatch == InitBatch /\ [][NextBatch]_vars

(***************************************************************************)
(* SpecPrune: one clean_profiles_from_data on stores left by earlier       *)
(* calls, with I/O faults.                                                 *)
(***************************************************************************)
InitPrune ==
    /\ idsFile \in StoredFiles(IdRows(SysAccessions), MaxStored)
    /\ removedFile \in StoredFiles({r \in RemovedRows(SysAccessions) : r.filter = "length"},
                                   MaxStored)
    /\ metaFile \in {NoFile} \cup
           {File(MetasOf(t)) : t \in SeqsOf(SysAccessions, 1, MaxStored)}
    /\ seqsDir \in SUBSET {Root(a) : a \in SysAccessions}
    /\ ledgerDir = <<[name |-> 1, ids |-> <<A1, B1>>]>>
    /\ run = 1
    /\ last = LastBase

PruneStep ==
    \E ids_list \in KeepLists(SysAccessions), fault \in CleanFaults,
       del_fail \in SUBSET seqsDir :
        /\ last.op = "start"
        /\ CleanProfiles(ids_list, fault, del_fail)

NextPrune ==
    \/ PruneStep

SpecPrune == InitPrune /\ [][NextPrune]_vars

(***************************************************************************)
(* SpecResolve: one resolution pass on every table of up to MaxTable rows  *)
(* (the stored rows followed by the newly supplied rows), no I/O fault.    *)
(***************************************************************************)
ResGood == {a \in ResAccessions : split_accession(a).ok}

InitResolve ==
    /\ \/ /\ idsFile \in StoredFiles(IdRows(ResGood), MaxStored)
          /\ removedFile = NoFile
       \/ /\ idsFile = NoFile
          /\ removedFile \in StoredFiles(RemovedRows(ResGood), MaxStored)
    /\ metaFile = NoFile
    /\ ledgerDir = <<>>
    /\ seqsDir = {}
    /\ run = 1
    /\ last = LastBase

IndexStep ==
    \E entries \in SeqsOf(ResAccessions, 1, MaxTable) :
        /\ last.op = "start"
        /\ removedFile = NoFile
        /\ Len(idsFile.rows) + Len(entries) <= MaxTable
        /\ UpdateLocalVersions(entries, "none")

RemovedStep ==
    \E removed_entries \in SeqsOf(RemovedRows(ResAccessions), 1, MaxTable) :
        /\ last.op = "start"
        /\ idsFile = NoFile
        /\ Len(removedFile.rows) + Len(removed_entries) <= MaxTable
        /\ SaveRemovedVersions(removed_entries, "none")

MetadataStep ==
    \E new_metas \in SeqsOf(MetaRows(ResAccessions), 1, MaxTable) :
        /\ last.op = "start"
        /\ idsFile = NoFile
        /\ removedFile = NoFile
        /\ SaveMetadata(new_metas, "none")

PostProcessStep ==
    /\ last.op = "save_metadata"
    /\ PostProcessMetadata("none")

NextResolve ==
    \/ IndexStep
    \/ RemovedStep
    \/ MetadataStep
    \/ PostProcessStep

SpecResolve == InitResolve /\ [][NextResolve]_vars

(***************************************************************************)
(* SpecLedger: the run ledger over several processes, with I/O faults.     *)
(***************************************************************************)
LedgerStep ==
    \E processed_ids \in SeqsOf(SysAccessions, 0, MaxProcessed),
       fault \in LedgerFaults :
        SaveProcessedIds(processed_ids, fault)

NextLedger ==
    \/ LedgerStep
    \/ NewRun

SpecLedger == Init /\ [][NextLedger]_vars

(***************************************************************************)
(* SpecPruneAgain: clean_profiles_from_data called again and again on      *)
(* stores left by earlier calls, with I/O faults.                          *)
(***************************************************************************)
InitPruneAgain ==
    /\ idsFile \in StoredFiles(IdRows(SysAccessions), MaxStored)
    /\ removedFile \in {NoFile,
                        File(<<[accession |-> A1, filter |-> "length"]>>),
                        File(<<[accession |-> B1, filter |-> "length"]>>)}
    /\ metaFile \in {NoFile, File(MetasOf(<<A1, A2>>))}
    /\ seqsDir \in SUBSET {Root(a) : a \in SysAccessions}
    /\ ledgerDir = <<>>
    /\ run = 1
    /\ last = LastBase

PruneAgainStep ==
    \E ids_list \in KeepLists(SysAccessions), fault \in CleanFaults,
       del_fail \in SUBSET seqsDir :
        CleanProfiles(ids_list, fault, del_fail)

NextPruneAgain ==
    \/ PruneAgainStep

SpecPruneAgain == InitPruneAgain /\ [][NextPruneAgain]_vars

(***************************************************************************)
(* SpecFilter: one filter_unprocessed_ids on every list of candidates and  *)
(* every list of processed ids.                                            *)
(***************************************************************************)
FilterStep ==
    \E id_list \in SeqsOf(SysAccessions, 0, MaxCandidates),
       processed_ids \in SeqsOf(SysAccessions, 0, MaxProcessed) :
        /\ last.op = "start"
        /\ FilterUnprocessedIds(id_list, processed_ids)

NextFilter ==
    \/ FilterStep

SpecFilter == Init /\ [][NextFilter]_vars

(***************************************************************************)
(* SpecCleanup: one cleanup_old_files on a directory of up to MaxFiles     *)
(* snapshot files, with removals that fail.                                *)
(***************************************************************************)
InitCleanup ==
    /\ idsFile = NoFile
    /\ removedFile = NoFile
    /\ metaFile = NoFile
    /\ \E n \in 0..MaxFiles :
          ledgerDir = [k \in 1..n |-> [name |-> k, ids |-> <<>>]]
    /\ seqsDir = {}
    /\ run = 1
    /\ last = LastBase

CleanupStep ==
    \E keep_last \in 0..MaxKeep,
       del_fail \in SUBSET {f.name : f \in Range(ledgerDir)},
       fault \in {"none", "dir_list"} :
        /\ last.op = "start"
        /\ fault = "dir_list" => del_fail = {}
        /\ CleanupOldFiles(keep_last, del_fail, fault)

NextCleanup ==
    \/ CleanupStep

SpecCleanup == InitCleanup /\ [][NextCleanup]_vars

(***************************************************************************)
(* Properties.                                                             *)
(***************************************************************************)
ResolutionOps ==
    {"update_local_versions", "save_removed_versions", "post_process_metadata"}

\* the store a resolution pass rewrites
StoreOfOp(op) ==
    CASE op = "update_local_versions" -> "ids"
      [] op = "save_removed_versions" -> "removed"
      [] op = "post_process_metadata" -> "meta"

WellFormed(t) == \A i \in DOMAIN t : split_accession(t[i].accession).ok

\* the rows of the input that resolution kept, as indices
KeptIdx == Range(last.res.kept)

\* the rows of a file whose accession is in S, the file staying as it is
\* when it is absent
Pruned(file, S) ==
    IF file.exists
    THEN File(SelectSeq(file.rows, LAMBDA r : r.accession \in S))
    ELSE NoFile

C2_VersionMonotonicity ==
    (last.op \in ResolutionOps /\ Len(last.input) > 0 /\ WellFormed(last.input))
    => /\ ~last.raised
       /\ \A i \in DOMAIN last.input :
            \E k \in KeptIdx :
                /\ AccId(last.input[k].accession) = AccId(last.input[i].accession)
                /\ AccVersion(last.input[k].accession)
                     >= AccVersion(last.input[i].accession)
       /\ StoreFile(StoreOfOp(last.op)).rows = RowsAt(last.input, last.res.kept)

\* version 10 stored, version 9 fetched afterwards: A.10 stays
C2_Witness ==
    /\ last.op = "update_local_versions"
    /\ last.input = <<[accession |-> A10], [accession |-> A9], [accession |-> B1]>>
    /\ Accessions(idsFile) = {A10, B1}

\* C3: of the input records with the same accession string only the one
\* supplied last can be kept; the stored rows come first in the input of
\* update_local_versions and save_removed_versions, and after a completed
\* pass the store holds the kept records, so a newly fetched record replaces
\* the stored record with its accession.
C3_LastDuplicateWins ==
    (last.op \in ResolutionOps /\ Len(last.input) > 0)
    => /\ \A i, j \in DOMAIN last.input :
            (i < j /\ last.input[i].accession = last.input[j].accession)
            => i \notin KeptIdx
       /\ last.op # "post_process_metadata"
            => SubSeq(last.input, 1, Len(last.wprior.rows)) = last.wprior.rows
       /\ ~last.raised
            => StoreFile(StoreOfOp(last.op)).rows = RowsAt(last.input, last.res.kept)

\* A.9 stored with one filter reason and fetched again with another
C3_Witness ==
    /\ last.op = "save_removed_versions"
    /\ last.wprior = File(<<[accession |-> A9, filter |-> "length"]>>)
    /\ removedFile = File(<<[accession |-> A9, filter |-> "quality"]>>)

\* C4: the version index and the removed log hold at most one row per
\* identifier.
C4_OneVersionPerIdentifier ==
    /\ Resolved(idsFile.rows)
    /\ Resolved(removedFile.rows)

\* both versions of A were accepted (the metadata table has both), the
\* version index holds the newer one
C4_Witness ==
    /\ last.op = "save_batch_info"
    /\ idsFile = File(<<[accession |-> A2]>>)
    /\ Accessions(metaFile) = {A1, A2}
    /\ Accessions(removedFile) = {B1}

\* C5 as stated: the snapshot written is the prior snapshot followed by the
\* newly processed ids that it lacks.
C5_PriorFirstUnion ==
    (last.op = "save_processed_ids" /\ last.fault = "none")
    => LatestLedger(ledgerDir) = FromKeys(last.latest \o last.processed)

\* C5 amended: when save_processed_ids returns, the snapshot of the process
\* is the most recent one and holds the newly processed ids first, in their
\* order and without repetition, followed by the ids load_processed_ids
\* returned that are not among them; load_processed_ids returned the most
\* recent prior snapshot, or nothing when the directory could not be listed.
C5_NewFirstUnion ==
    (last.op = "save_processed_ids" /\ ~last.raised)
    => /\ LatestLedger(ledgerDir) = CurrentSnapshot(ledgerDir, run).rows
       /\ LatestLedger(ledgerDir)
            = FromKeys(last.processed)
                \o SelectSeq(last.loaded, LAMBDA x : x \notin Range(last.processed))
       /\ last.loaded = IF last.fault = "ledger_list" THEN <<>> ELSE last.latest

\* the prior snapshot [A.1, B.1] and the batch [B.1, A.2]
C5_Witness ==
    /\ last.op = "save_processed_ids"
    /\ last.latest = <<A1, B1>>
    /\ last.processed = <<B1, A2>>
    /\ LatestLedger(ledgerDir) = <<B1, A2, A1>>

\* C6 as stated: a save_processed_ids that returns leaves every accession of
\* the most recent snapshot in the most recent snapshot.
C6_LedgerNeverLoses ==
    [][(last'.op = "save_processed_ids" /\ ~last'.raised)
       => Range(LatestLedger(ledgerDir)) \subseteq Range(LatestLedger(ledgerDir'))]_vars

\* an I/O failure of a store: its file (or directory) could not be read, or
\* its write failed
StoreFaults ==
    {"ids_read", "ids_write", "removed_read", "removed_write", "meta_read",
     "meta_write", "ledger_list", "ledger_read", "ledger_write"}

\* C7 as stated: after a completed resolution pass every input row that is
\* not kept was handed to the dropped-rows file, so kept rows plus reported
\* rows are the input rows.
C7_AllDropsReported ==
    (last.op \in ResolutionOps /\ ~last.raised /\ Len(last.input) > 0)
    => /\ (DOMAIN last.input \ KeptIdx)
            \subseteq (last.res.duplicate \cup last.res.update)
       /\ Len(last.res.kept)
            + Cardinality(last.res.duplicate \cup last.res.update)
            = Len(last.input)

\* C8 as stated: a malformed accession in the input does not abort the
\* pass; the store then holds a record for every identifier of a
\* well-formed input record and no malformed record.
C8_MalformedFatalOnlyForRecord ==
    (last.op \in ResolutionOps /\ Len(last.input) > 0)
    => /\ ~last.raised
       /\ \A i \in DOMAIN last.input :
            split_accession(last.input[i].accession).ok
            => \E k \in DOMAIN StoreFile(StoreOfOp(last.op)).rows :
                   AccId(StoreFile(StoreOfOp(last.op)).rows[k].accession)
                     = AccId(last.input[i].accession)
       /\ WellFormed(StoreFile(StoreOfOp(last.op)).rows)

\* C9 as stated: after a full rewrite of the version index, the removed log
\* or the ledger snapshot that failed part-way, the file holds the complete
\* prior content or the complete new content.
C9_AtomicRewrite ==
    (last.op = "save_batch_info"
       /\ last.fault \in {"ids_write", "removed_write", "ledger_write"})
    => StoreFile(WriteStore(last.fault)) \in {last.wprior, File(last.wnew)}

\* C10 as stated: a call that met a store failure ends by raising.
C10_StoreFailurePropagates ==
    last.fault \in StoreFaults => last.raised

\* C11: a clean_profiles_from_data(S) directly after a clean with the same S
\* that met no I/O error and removed every file it had to remove leaves the
\* version index, the removed log, the metadata table and the FASTA
\* directory as they are, attempts no rewrite (no write can fail) and no
\* removal (no removal can fail).
C11_PruneIdempotent ==
    [][(/\ last.op = "clean_profiles_from_data"
        /\ last.fault = "none"
        /\ last.del_fail = {}
        /\ last'.op = "clean_profiles_from_data"
        /\ last'.keep_set = last.keep_set)
       => /\ UNCHANGED <<idsFile, removedFile, metaFile, seqsDir, ledgerDir>>
          /\ last'.fault \notin {"ids_write", "removed_write", "meta_write"}
          /\ last'.del_fail = {}]_vars

\* the second of two cleans with S = {A.2}: the first one left A.2 in the
\* version index and the metadata table and the file A.fasta
C11_Witness ==
    /\ last.op = "clean_profiles_from_data"
    /\ last.again
    /\ last.keep_set = {A2}
    /\ last.fault = "none"
    /\ idsFile = File(<<[accession |-> A2]>>)
    /\ metaFile = File(MetasOf(<<A2>>))
    /\ removedFile = File(<<>>)
    /\ seqsDir = {<<"A">>}

\* the candidates that are not in the ledger, as indices of id_list
UnprocessedIdx ==
    {i \in DOMAIN last.id_list : last.id_list[i] \notin Range(last.processed)}

\* C12: filter_unprocessed_ids returns the candidates that are not in the
\* ledger, each as often as it is a candidate and in the candidates' order:
\* the k-th returned id is the candidate at the k-th smallest index whose
\* candidate is not in the ledger.
C12_FilterUnprocessed ==
    last.op = "filter_unprocessed_ids"
    => /\ Len(last.unprocessed) = Cardinality(UnprocessedIdx)
       /\ \A k \in DOMAIN last.unprocessed :
            \E i \in UnprocessedIdx :
                /\ Cardinality({j \in UnprocessedIdx : j <= i}) = k
                /\ last.unprocessed[k] = last.id_list[i]
       /\ Range(last.unprocessed) \cap Range(last.processed) = {}
       /\ Range(last.id_list) \ Range(last.processed) \subseteq Range(last.unprocessed)

\* candidates [A.2, A.1, A.2] with A.1 in the ledger
C12_Witness ==
    /\ last.op = "filter_unprocessed_ids"
    /\ last.id_list = <<A2, A1, A2>>
    /\ last.processed = <<B1, A1>>
    /\ last.unprocessed = <<A2, A2>>

\* C13 as stated: post_process_metadata warns "is not the most recently
\* added row" for an identifier exactly when the row kept for it is not the
\* last row of the identifier's group.
C13_WarningIffKeptNotMostRecent ==
    (last.op = "post_process_metadata" /\ ~last.raised /\ Len(last.input) > 0)
    => \A i \in DOMAIN last.input :
          (AccId(last.input[i].accession) \in last.res.not_recent)
          <=> (\E k \in KeptIdx :
                  /\ k \in Group(last.input, i)
                  /\ k # SetMax(Group(last.input, i)))

\* a row of table t has the identifier of accession a and at least its version
Covers(t, a) ==
    \E k \in DOMAIN t :
        /\ AccId(t[k].accession) = AccId(a)
        /\ AccVersion(t[k].accession) >= AccVersion(a)

\* C14: save_batch_info touches the ledger only in its last save, after the
\* saves of the version index, the metadata table and the removed log have
\* returned: a call that ended in an earlier save (an exception or a crash
\* there) leaves the ledger directory as it was, a call that changed it met
\* no failure of a store save, and every accession the call added to the
\* most recent snapshot is then stored, either in the metadata table and,
\* at its version or a newer one, in the version index, or, at its version
\* or a newer one, in the removed log.
C14_LedgerWrittenLast ==
    [][last'.op = "save_batch_info"
       => /\ last'.step # "ledger" => ledgerDir' = ledgerDir
          /\ ledgerDir' # ledgerDir
             => /\ last'.step = "ledger"
                /\ last'.fault \in {"none", "ledger_list", "ledger_write"}
                /\ \A a \in Range(LatestLedger(ledgerDir'))
                              \ Range(LatestLedger(ledgerDir)) :
                      \/ /\ a \in Accessions(metaFile')
                         /\ Covers(idsFile'.rows, a)
                      \/ Covers(removedFile'.rows, a)]_vars

\* the write of the removed log failed after A.2 was saved in the version
\* index: the ledger still holds A.1 only
C14_Witness ==
    /\ last.op = "save_batch_info"
    /\ last.step = "removed"
    /\ last.fault = "removed_write"
    /\ A2 \in Accessions(idsFile)
    /\ Range(LatestLedger(ledgerDir)) = {A1}

\* C15 as stated: after cleanup_old_files on a directory with more than
\* keep_last files the directory holds the keep_last most recent files and,
\* beyond them, only the files whose own removal failed.
C15_CleanupToleratesFailure ==
    [][(/\ last'.op = "cleanup_old_files"
        /\ last'.fault = "none"
        /\ Len(ledgerDir) > last'.keep_last)
       => \A k \in 1..(Len(ledgerDir) - last'.keep_last) :
             (ledgerDir[k] \in Range(ledgerDir'))
             => ledgerDir[k].name \in last'.del_fail]_vars

====
